---- MODULE Spec2Model ----
(***************************************************************************)
(* Model of the haltic crate (src/src/lib.rs): a loop body implementing   *)
(* Cancellable::for_each is driven either on the calling thread (run) or  *)
(* on a dedicated thread (spawn) under a shared AtomicBool, with a        *)
(* Handle / Canceller pair to request the stop and to join the thread.    *)
(*                                                                         *)
(* Every atomic step of the background thread is its own action: the load *)
(* of the flag, the call of for_each and the return of for_each are       *)
(* separate, so that a cancel() can fall between any two of them.         *)
(***************************************************************************)
EXTENDS Integers, Sequences, FiniteSets

\* ---- bounds ------------------------------------------------------------
MaxSteps == 4        \* for_each invocations explored on one loop body
MaxCancels == 2      \* cancel() calls explored
MaxCancellers == 2   \* Canceller clones explored (besides the Handle's own)

\* ---- values ------------------------------------------------------------
\* Self::Error: two distinguishable error values
Errors == {"Err1", "Err2"}

\* what one for_each call can do: Ok(LoopState::Continue), Ok(LoopState::Break),
\* Err(e), or unwind with a panic
Outcomes == {"Continue", "Break", "Panic"} \cup Errors

VARIABLES
    heap,                 \* the allocated AtomicBool cells, by address
    thread_keep_running,  \* address captured by the thread's closure (0: none)
    bgpc,                 \* position of the background thread
    joinResult,           \* value the thread's closure returned
    handle,               \* the Handle: its state and its canceller's address
    waitResult,           \* value wait() returned
    cancellers,           \* the Canceller values created by clone
    runpc,                \* position of the caller inside run()
    runResult,            \* value run() returned
    calls,                \* for_each invocations begun on the loop body
    outcomes,             \* what the for_each invocations returned, in order
    loads,                \* loads of the flag done by the background thread
    cancels,              \* cancel() calls completed
    firstCancel,          \* snapshot taken when the first cancel() completed
    cancelledBy,          \* who has completed a cancel() (0: the Handle)
    cancellerCalls,       \* canceller() calls completed on the Handle
    falseRead             \* snapshot taken when the thread loaded false

vars == <<heap, thread_keep_running, bgpc, joinResult, handle, waitResult,
          cancellers, runpc, runResult, calls, outcomes, loads, cancels,
          firstCancel, cancelledBy, cancellerCalls, falseRead>>

bodyVars == <<calls, outcomes>>
runVars == <<runpc, runResult>>
threadVars == <<thread_keep_running, bgpc, joinResult, loads, falseRead>>
cancelVars == <<cancels, firstCancel, cancelledBy, cancellerCalls>>

\* ---- pure parts of the code -------------------------------------------

\* a closure that calls for_each before its first look at the flag
ThreadEntryCallFirst == "call"

\* where the spawned closure starts: at the while condition
ThreadEntry == "load"

\* AtomicBool::new(true) in spawn
InitialFlag == TRUE

\* a cancel that writes back the value it found
CancelKeepsValue(old) == old

\* a cancel that flips the cell instead of clearing it
CancelToggle(old) == ~old

\* a cancel that stores true
CancelStoreTrue(old) == TRUE

\* the value Canceller::cancel stores, given the value currently in the cell
CancelValue(old) == FALSE

\* a cancel that kills the thread inside for_each
CancelInterrupts(pc, ret) ==
    IF pc = "for_each" THEN [pc |-> "exited", ret |-> "Ok"]
                       ELSE [pc |-> pc, ret |-> ret]

\* a cancel that overwrites the result of a thread that has exited
CancelOverwritesResult(pc, ret) ==
    IF pc = "exited" THEN [pc |-> pc, ret |-> "Ok"]
                     ELSE [pc |-> pc, ret |-> ret]

\* what Canceller::cancel does to the thread besides the store: nothing, the
\* thread's position and its result are left as they are
ThreadAfterCancel(pc, ret) == [pc |-> pc, ret |-> ret]

\* a drop that cancels
DropCancels(old) == FALSE

\* what dropping a Handle or a Canceller does to the cell it points to:
\* neither type has a Drop impl, the Arc only gives up its reference
DropValue(old) == old

\* a clone that gets a cell of its own, holding a copy of the value
CloneCopiesFlag(h, addr) ==
    [heap |-> Append(h, h[addr]), keep_running |-> Len(h) + 1]

\* #[derive(Clone)] on Canceller: Arc::clone copies the pointer, the heap is
\* left alone
CloneCanceller(h, addr) == [heap |-> h, keep_running |-> addr]

\* a loop that never looks at the value it loaded
LoadBranchIgnoreFlag(b) == [pc |-> "call", ret |-> "None"]

\* a loop that reports the cancellation as a failure
LoadBranchCancelIsError(b) ==
    IF b THEN [pc |-> "call", ret |-> "None"]
         ELSE [pc |-> "exited", ret |-> "Err1"]

\* the while condition of spawn's closure: where the thread goes after
\* loading b from the flag
LoadBranch(b) ==
    IF b THEN [pc |-> "call", ret |-> "None"]
         ELSE [pc |-> "exited", ret |-> "Ok"]

\* a match whose Continue arm calls for_each again without the flag check
SpawnMatchNoRecheck(o) ==
    CASE o = "Continue" -> [pc |-> "call", ret |-> "None"]
      [] o = "Break"    -> [pc |-> "exited", ret |-> "Ok"]
      [] o \in Errors   -> [pc |-> "exited", ret |-> o]
      [] o = "Panic"    -> [pc |-> "panicked", ret |-> "None"]

\* a match that swallows a failure and loops
SpawnMatchSwallowErr(o) ==
    CASE o = "Continue" -> [pc |-> "load", ret |-> "None"]
      [] o = "Break"    -> [pc |-> "exited", ret |-> "Ok"]
      [] o \in Errors   -> [pc |-> "load", ret |-> "None"]
      [] o = "Panic"    -> [pc |-> "panicked", ret |-> "None"]

\* the match of spawn's closure on what for_each returned
SpawnMatch(o) ==
    CASE o = "Continue" -> [pc |-> "load", ret |-> "None"]
      [] o = "Break"    -> [pc |-> "exited", ret |-> "Ok"]
      [] o \in Errors   -> [pc |-> "exited", ret |-> o]
      [] o = "Panic"    -> [pc |-> "panicked", ret |-> "None"]

\* a match that swallows a failure and loops
RunMatchSwallowErr(o) ==
    CASE o = "Continue" -> [pc |-> "call", ret |-> "None"]
      [] o = "Break"    -> [pc |-> "returned", ret |-> "Ok"]
      [] o \in Errors   -> [pc |-> "call", ret |-> "None"]
      [] o = "Panic"    -> [pc |-> "unwound", ret |-> "None"]

\* a match whose Continue arm leaves the loop
RunMatchContinueBreaks(o) ==
    CASE o = "Continue" -> [pc |-> "returned", ret |-> "Ok"]
      [] o = "Break"    -> [pc |-> "returned", ret |-> "Ok"]
      [] o \in Errors   -> [pc |-> "returned", ret |-> o]
      [] o = "Panic"    -> [pc |-> "unwound", ret |-> "None"]

\* the match of run on what for_each returned
RunMatch(o) ==
    CASE o = "Continue" -> [pc |-> "call", ret |-> "None"]
      [] o = "Break"    -> [pc |-> "returned", ret |-> "Ok"]
      [] o \in Errors   -> [pc |-> "returned", ret |-> o]
      [] o = "Panic"    -> [pc |-> "unwound", ret |-> "None"]

\* a join that does not block
JoinReadyNoBlock(pc) == TRUE

\* JoinHandle::join blocks until the thread is finished
JoinReady(pc) == pc \in {"exited", "panicked"}

\* a wait that turns the thread's panic into success
WaitMatchPanicIsOk(pc, r) ==
    IF pc = "panicked" THEN [state |-> "returned", ret |-> "Ok"]
                       ELSE [state |-> "returned", ret |-> r]

\* the match of wait on what join returned
WaitMatch(pc, r) ==
    IF pc = "panicked" THEN [state |-> "panicked", ret |-> "None"]
                       ELSE [state |-> "returned", ret |-> r]

\* ---- initial state: a loop body has been constructed -------------------
NoSnapshot == [set |-> FALSE, calls |-> 0, loads |-> 0, pc |-> "unspawned"]

Init ==
    /\ heap = <<>>
    /\ thread_keep_running = 0
    /\ bgpc = "unspawned"
    /\ joinResult = "None"
    /\ handle = [state |-> "none", keep_running |-> 0]
    /\ waitResult = "None"
    /\ cancellers = <<>>
    /\ runpc = "idle"
    /\ runResult = "None"
    /\ calls = 0
    /\ outcomes = <<>>
    /\ loads = 0
    /\ cancels = 0
    /\ firstCancel = NoSnapshot
    /\ cancelledBy = {}
    /\ cancellerCalls = 0
    /\ falseRead = NoSnapshot

\* ---- Cancellable::run --------------------------------------------------
\* One loop body is driven by one driver: run(&mut self) keeps the caller
\* inside the loop, spawn(self) moves the body to the thread.
RunStart ==
    /\ runpc = "idle"
    /\ bgpc = "unspawned"
    /\ runpc' = "call"
    /\ UNCHANGED <<heap, threadVars, handle, waitResult, cancellers,
                   runResult, bodyVars, cancelVars>>

\* self.for_each() is entered (explored up to MaxSteps invocations)
RunCall ==
    /\ runpc = "call"
    /\ calls < MaxSteps
    /\ runpc' = "for_each"
    /\ calls' = calls + 1
    /\ UNCHANGED <<heap, threadVars, handle, waitResult, cancellers,
                   runResult, outcomes, cancelVars>>

\* self.for_each() comes back with o
RunReturn(o) ==
    /\ runpc = "for_each"
    /\ outcomes' = Append(outcomes, o)
    /\ runpc' = RunMatch(o).pc
    /\ runResult' = RunMatch(o).ret
    /\ UNCHANGED <<heap, threadVars, handle, waitResult, cancellers,
                   calls, cancelVars>>

\* ---- Cancellable::spawn ------------------------------------------------
Spawn ==
    /\ bgpc = "unspawned"
    /\ runpc = "idle"
    /\ heap' = Append(heap, InitialFlag)
    /\ thread_keep_running' = Len(heap) + 1
    /\ handle' = [state |-> "held", keep_running |-> Len(heap) + 1]
    /\ bgpc' = ThreadEntry
    /\ UNCHANGED <<joinResult, waitResult, cancellers, runVars, bodyVars,
                   loads, falseRead, cancelVars>>

\* keep_running.load(SeqCst) at the head of the while loop; a load of true
\* is explored as long as fewer than MaxSteps invocations were made
BgLoad ==
    /\ bgpc = "load"
    /\ heap[thread_keep_running] => calls < MaxSteps
    /\ loads' = loads + 1
    /\ bgpc' = LoadBranch(heap[thread_keep_running]).pc
    /\ joinResult' = LoadBranch(heap[thread_keep_running]).ret
    /\ falseRead' = IF heap[thread_keep_running] THEN falseRead
                    ELSE [set |-> TRUE, calls |-> calls, loads |-> loads + 1,
                          pc |-> bgpc]
    /\ UNCHANGED <<heap, thread_keep_running, handle, waitResult, cancellers,
                   runVars, bodyVars, cancelVars>>

\* self.for_each() is entered
BgCall ==
    /\ bgpc = "call"
    /\ calls < MaxSteps
    /\ bgpc' = "for_each"
    /\ calls' = calls + 1
    /\ UNCHANGED <<heap, thread_keep_running, joinResult, handle, waitResult,
                   cancellers, runVars, outcomes, loads, falseRead, cancelVars>>

\* self.for_each() comes back with o
BgReturn(o) ==
    /\ bgpc = "for_each"
    /\ outcomes' = Append(outcomes, o)
    /\ bgpc' = SpawnMatch(o).pc
    /\ joinResult' = SpawnMatch(o).ret
    /\ UNCHANGED <<heap, thread_keep_running, handle, waitResult, cancellers,
                   runVars, calls, loads, falseRead, cancelVars>>

\* ---- Canceller ---------------------------------------------------------
\* self.keep_running.store(false, SeqCst) on the cell at addr, by the
\* Canceller numbered by (0: the Handle's own)
Store(addr, by) ==
    /\ cancels < MaxCancels
    /\ heap' = [heap EXCEPT ![addr] = CancelValue(heap[addr])]
    /\ bgpc' = ThreadAfterCancel(bgpc, joinResult).pc
    /\ joinResult' = ThreadAfterCancel(bgpc, joinResult).ret
    /\ cancels' = cancels + 1
    /\ cancelledBy' = cancelledBy \cup {by}
    /\ firstCancel' = IF firstCancel.set THEN firstCancel
                      ELSE [set |-> TRUE, calls |-> calls, loads |-> loads,
                            pc |-> bgpc]
    /\ UNCHANGED <<thread_keep_running, loads, falseRead, handle, waitResult,
                   cancellers, runVars, bodyVars, cancellerCalls>>

\* cancel() on a Canceller clone
Cancel(c) ==
    /\ c \in 1..Len(cancellers)
    /\ cancellers[c].live
    /\ Store(cancellers[c].keep_running, c)

\* h.cancel(): Handle derefs to its Canceller
HandleCancel ==
    /\ handle.state = "held"
    /\ Store(handle.keep_running, 0)

\* clone of the Canceller at addr
MakeClone(addr) ==
    /\ Len(cancellers) < MaxCancellers
    /\ heap' = CloneCanceller(heap, addr).heap
    /\ cancellers' = Append(cancellers,
           [keep_running |-> CloneCanceller(heap, addr).keep_running,
            live |-> TRUE])
    /\ UNCHANGED <<threadVars, handle, waitResult, runVars, bodyVars,
                   cancelVars>>

Clone(c) ==
    /\ c \in 1..Len(cancellers)
    /\ cancellers[c].live
    /\ MakeClone(cancellers[c].keep_running)

\* a clone taken through the Handle's Deref
HandleClone ==
    /\ handle.state = "held"
    /\ MakeClone(handle.keep_running)

\* h.canceller(), as src/examples/basic.rs calls it: a new Canceller for the
\* Handle's flag; the Handle is borrowed, not consumed
HandleCanceller ==
    /\ handle.state = "held"
    /\ Len(cancellers) < MaxCancellers
    /\ heap' = CloneCanceller(heap, handle.keep_running).heap
    /\ cancellers' = Append(cancellers,
           [keep_running |-> CloneCanceller(heap, handle.keep_running).keep_running,
            live |-> TRUE])
    /\ cancellerCalls' = cancellerCalls + 1
    /\ UNCHANGED <<threadVars, handle, waitResult, runVars, bodyVars,
                   cancels, firstCancel, cancelledBy>>

\* a Canceller goes out of scope
DropCanceller(c) ==
    /\ c \in 1..Len(cancellers)
    /\ cancellers[c].live
    /\ cancellers' = [cancellers EXCEPT ![c].live = FALSE]
    /\ heap' = [heap EXCEPT ![cancellers[c].keep_running] =
                    DropValue(heap[cancellers[c].keep_running])]
    /\ UNCHANGED <<threadVars, handle, waitResult, runVars, bodyVars,
                   cancelVars>>

\* ---- Handle ------------------------------------------------------------
\* wait(self) is entered: the Handle is consumed
WaitCall ==
    /\ handle.state = "held"
    /\ handle' = [handle EXCEPT !.state = "waiting"]
    /\ UNCHANGED <<heap, threadVars, waitResult, cancellers, runVars,
                   bodyVars, cancelVars>>

\* self.executor.join() comes back and wait returns, or panics
WaitReturn ==
    /\ handle.state = "waiting"
    /\ JoinReady(bgpc)
    /\ handle' = [handle EXCEPT !.state = WaitMatch(bgpc, joinResult).state]
    /\ waitResult' = WaitMatch(bgpc, joinResult).ret
    /\ UNCHANGED <<heap, threadVars, cancellers, runVars, bodyVars,
                   cancelVars>>

\* the Handle goes out of scope without wait: the thread is detached
DropHandle ==
    /\ handle.state = "held"
    /\ handle' = [handle EXCEPT !.state = "dropped"]
    /\ heap' = [heap EXCEPT ![handle.keep_running] =
                    DropValue(heap[handle.keep_running])]
    /\ UNCHANGED <<threadVars, waitResult, cancellers, runVars,
                   bodyVars, cancelVars>>

\* ---- specification -----------------------------------------------------
Next ==
    \/ RunStart
    \/ RunCall
    \/ \E o \in Outcomes : RunReturn(o)
    \/ Spawn
    \/ BgLoad
    \/ BgCall
    \/ \E o \in Outcomes : BgReturn(o)
    \/ \E c \in 1..MaxCancellers : Cancel(c)
    \/ HandleCancel
    \/ \E c \in 1..MaxCancellers : Clone(c)
    \/ HandleClone
    \/ HandleCanceller
    \/ \E c \in 1..MaxCancellers : DropCanceller(c)
    \/ WaitCall
    \/ WaitReturn
    \/ DropHandle

Spec == Init /\ [][Next]_vars

\* The background thread is an OS thread: it is scheduled as long as it can
\* take a step, and a for_each that was called comes back; join returns once
\* the thread has finished.
FairSpec ==
    /\ Spec
    /\ WF_vars(BgLoad)
    /\ WF_vars(BgCall)
    /\ WF_vars(\E o \in Outcomes : BgReturn(o))
    /\ WF_vars(WaitReturn)
\* ---- helpers of the properties -----------------------------------------
Spawned == bgpc # "unspawned"

\* the cell the background thread reads
Flag == heap[thread_keep_running]

Last(s) == s[Len(s)]

AllContinue(s) == \A i \in 1..Len(s) : s[i] = "Continue"

\* the loop was still running when the first cancel() completed
CancelledWhileRunning ==
    firstCancel.set /\ firstCancel.pc \in {"load", "call", "for_each"}

\* the result the loop body's history calls for
FinalResult ==
    IF outcomes # <<>> /\ Last(outcomes) \in Errors THEN Last(outcomes)
                                                    ELSE "Ok"

\* ---- C1 ----------------------------------------------------------------
\* C1: the run flag of a spawned run starts true, and a cell that is false
\* is false in every later state, whatever cancel, clone, step or wait
\* follows.
C1_FlagMonotonic ==
    [][ /\ (~Spawned /\ Spawned') => heap'[thread_keep_running'] = TRUE
        /\ \A a \in DOMAIN heap : ~heap[a] => ~heap'[a] ]_vars

C1_Witness ==
    /\ Spawned /\ ~Flag /\ cancels >= 2
    /\ Len(cancellers) >= 1
    /\ calls >= 1
    /\ handle.state = "returned"

\* ---- C2 ----------------------------------------------------------------
\* C2: once the background thread has loaded false, the number of for_each
\* invocations is the one at that load for ever, and the thread has exited
\* with Ok.
C2_NoStepAfterFalseRead ==
    falseRead.set =>
        /\ calls = falseRead.calls
        /\ bgpc = "exited"
        /\ joinResult = "Ok"

C2_Witness ==
    /\ falseRead.set /\ falseRead.calls >= 2
    /\ bgpc = "exited"
    /\ cancels >= 1

\* ---- C3 ----------------------------------------------------------------
\* C3 as stated: a cancel() completed while no for_each had been invoked
\* leaves the loop at zero invocations, and wait() returns Ok.
C3_Original ==
    (firstCancel.set /\ firstCancel.calls = 0) =>
        /\ calls = 0
        /\ handle.state # "panicked"
        /\ handle.state = "returned" => waitResult = "Ok"

\* C3 amended: a cancel() completed before the background thread's first
\* load of the flag leaves the loop at zero invocations, the thread can only
\* exit with Ok, and wait() returns Ok.
C3_CancelBeforeFirstCheck ==
    (firstCancel.set /\ firstCancel.loads = 0) =>
        /\ calls = 0
        /\ bgpc \in {"load", "exited"}
        /\ bgpc = "exited" => joinResult = "Ok"
        /\ handle.state # "panicked"
        /\ handle.state = "returned" => waitResult = "Ok"

C3_Witness ==
    /\ firstCancel.set /\ firstCancel.loads = 0
    /\ calls = 0
    /\ handle.state = "returned" /\ waitResult = "Ok"

\* ---- C4 ----------------------------------------------------------------
\* C4: after the first cancel() has completed at most one more for_each is
\* invoked, and only by a thread that had loaded true before the store; when
\* the loop was running at the cancel and its last step did not fail, the
\* thread exits with Ok and wait() returns Ok.
C4_AtMostOneStepAfterCancel ==
    firstCancel.set =>
        /\ calls - firstCancel.calls <= 1
        /\ calls > firstCancel.calls => firstCancel.pc = "call"
        /\ (CancelledWhileRunning /\ bgpc = "exited" /\ FinalResult = "Ok") =>
               /\ joinResult = "Ok"
               /\ handle.state = "returned" => waitResult = "Ok"

C4_Witness ==
    /\ firstCancel.set /\ firstCancel.pc = "call"
    /\ firstCancel.calls = 2
    /\ calls = 3
    /\ Last(outcomes) = "Continue"
    /\ handle.state = "returned" /\ waitResult = "Ok"

\* ---- C5 ----------------------------------------------------------------
\* C5: whatever the number of cancel() calls and of Cancellers making them,
\* at most one for_each is invoked after the flag became false, and none
\* after the thread loaded false; with no cancel() the flag is never seen
\* false.
C5_ManyCancels ==
    /\ cancels = 0 => (~falseRead.set /\ (Spawned => Flag))
    /\ cancels >= 1 =>
           /\ firstCancel.set
           /\ calls - firstCancel.calls <= 1
           /\ falseRead.set => calls - falseRead.calls <= 1

C5_Witness ==
    /\ cancels >= 2
    /\ Cardinality(cancelledBy) >= 2
    /\ Len(cancellers) >= 2
    /\ calls = firstCancel.calls + 1
    /\ firstCancel.calls >= 1
    /\ falseRead.set

\* ---- C6 ----------------------------------------------------------------
\* C6: in the background driver a for_each that returned Err(e) is the last
\* invocation, whatever the flag holds: the thread has exited with Err(e)
\* and wait() returns Err(e).
C6_SpawnFailureHalts ==
    Spawned =>
        \A i \in 1..Len(outcomes) :
            outcomes[i] \in Errors =>
                /\ i = Len(outcomes)
                /\ calls = i
                /\ bgpc = "exited"
                /\ joinResult = outcomes[i]
                /\ handle.state # "panicked"
                /\ handle.state = "returned" => waitResult = outcomes[i]

C6_Witness ==
    /\ Spawned /\ Flag
    /\ Len(outcomes) = 2 /\ outcomes[2] = "Err2"
    /\ handle.state = "returned" /\ waitResult = "Err2"

\* ---- C7 ----------------------------------------------------------------
\* C7: in run a for_each that returned Err(e) is the last invocation: the
\* number of invocations is the index of that step and run returned Err(e).
C7_RunFirstFailure ==
    runpc # "idle" =>
        \A i \in 1..Len(outcomes) :
            outcomes[i] \in Errors =>
                /\ i = Len(outcomes)
                /\ calls = i
                /\ runpc = "returned"
                /\ runResult = outcomes[i]

C7_Witness ==
    /\ runpc = "returned"
    /\ outcomes = <<"Continue", "Continue", "Err2">>
    /\ calls = 3
    /\ runResult = "Err2"

\* ---- C8 ----------------------------------------------------------------
\* C8: run has not returned as long as every for_each returned Continue, and
\* after n Continue and one Break it has returned Ok with n + 1 invocations.
C8_RunUntilBreak ==
    runpc # "idle" =>
        /\ AllContinue(outcomes) => (runpc \in {"call", "for_each"}
                                     /\ runResult = "None")
        /\ (outcomes # <<>> /\ Last(outcomes) = "Break") =>
               /\ AllContinue(SubSeq(outcomes, 1, Len(outcomes) - 1))
               /\ runpc = "returned"
               /\ runResult = "Ok"
               /\ calls = Len(outcomes)

C8_Witness ==
    /\ runpc = "returned"
    /\ outcomes = <<"Continue", "Continue", "Continue", "Break">>
    /\ calls = 4
    /\ runResult = "Ok"

\* ---- C9 ----------------------------------------------------------------
\* C9: when the loop left because its flag check loaded false, wait() does
\* not panic and what it returns is Ok, never an error value.
C9_CancelIsNotAnError ==
    falseRead.set =>
        /\ joinResult \notin Errors
        /\ handle.state # "panicked"
        /\ handle.state = "returned" => waitResult = "Ok"

C9_Witness ==
    /\ falseRead.set
    /\ calls >= 1
    /\ handle.state = "returned"
    /\ waitResult = "Ok"

\* ---- C10 ---------------------------------------------------------------
\* C10: wait() has not come back while the thread is running, and the value
\* it returns is the thread's result: Ok, or the error the loop propagated.
C10_WaitJoins ==
    /\ handle.state \in {"returned", "panicked"} =>
           bgpc \in {"exited", "panicked"}
    /\ handle.state = "returned" =>
           /\ bgpc = "exited"
           /\ waitResult = joinResult
           /\ waitResult = FinalResult
    /\ handle.state \in {"held", "waiting", "dropped", "none"} =>
           waitResult = "None"

C10_Witness ==
    /\ handle.state = "returned"
    /\ waitResult = "Err1"
    /\ ~firstCancel.set
    /\ calls = 2
\* ---- C11 ---------------------------------------------------------------
\* a step of the background thread that loads the flag
IsLoad == bgpc = "load" /\ loads' = loads + 1

\* a step that completes a cancel()
IsCancel == cancels' = cancels + 1

\* C11: a load of the flag made by the background thread after a cancel()
\* has completed reads false: the thread records the false read and exits.
C11_LoadAfterCancelReadsFalse ==
    [][ (IsLoad /\ firstCancel.set) =>
            /\ falseRead'.set
            /\ falseRead'.loads = loads'
            /\ bgpc' = "exited" ]_vars

\* the cancel came while a step was in flight, the step completed after it
\* and the load that followed read false
C11_Witness ==
    /\ firstCancel.set /\ firstCancel.pc = "for_each"
    /\ Len(outcomes) = firstCancel.calls
    /\ falseRead.set
    /\ falseRead.loads = firstCancel.loads + 1

\* ---- C12 ---------------------------------------------------------------
\* C12: a cancel() that is not the first, by the same Canceller or another,
\* changes nothing: the cells, the thread, the Handle, the Cancellers and the
\* loop body are as they were.
C12_CancelIdempotent ==
    [][ (IsCancel /\ cancels >= 1) =>
            /\ heap' = heap
            /\ UNCHANGED threadVars
            /\ UNCHANGED <<handle, waitResult, cancellers>>
            /\ UNCHANGED <<runVars, bodyVars>> ]_vars

C12_Witness ==
    /\ cancels = 2
    /\ cancelledBy = {0, 2}
    /\ ~Flag

\* ---- C13 ---------------------------------------------------------------
\* C13: every Canceller, the Handle's own and every clone, points to the one
\* cell the background thread reads, so a cancel() by any of them leaves
\* that cell false.
C13_ClonesShareFlag ==
    /\ [](Spawned =>
            /\ handle.keep_running = thread_keep_running
            /\ \A c \in 1..Len(cancellers) :
                   cancellers[c].keep_running = thread_keep_running
            /\ Len(heap) = 1)
    /\ [][ IsCancel => ~heap'[thread_keep_running'] ]_vars

\* a clone of a clone made the only cancel, and the thread saw it
C13_Witness ==
    /\ Len(cancellers) >= 2
    /\ cancellerCalls = 0
    /\ cancelledBy = {2}
    /\ falseRead.set
    /\ calls >= 1
\* ---- C14 ---------------------------------------------------------------
\* C14: when the background thread ended by a panic, wait() has returned
\* neither Ok nor an error value: it panics, and it panics in no other case.
C14_PanicIsFatal ==
    /\ bgpc = "panicked" =>
           /\ handle.state # "returned"
           /\ waitResult = "None"
    /\ handle.state = "panicked" =>
           /\ bgpc = "panicked"
           /\ waitResult = "None"
    /\ handle.state = "returned" => waitResult \in {"Ok"} \cup Errors

C14_Witness ==
    /\ handle.state = "panicked"
    /\ Len(outcomes) = 2 /\ outcomes[2] = "Panic"
    /\ firstCancel.set

\* ---- C15 ---------------------------------------------------------------
\* C15: a cancel() that completes while for_each is executing leaves the
\* thread inside that for_each; the step ends by its own return only, with
\* the effect of its own outcome whatever the flag holds, and as long as it
\* has not returned the thread has no result and wait() has not come back.
C15_CancelDoesNotInterrupt ==
    /\ [](bgpc = "for_each" =>
            /\ handle.state \notin {"returned", "panicked"}
            /\ joinResult = "None"
            /\ Len(outcomes) = calls - 1)
    /\ [][ (bgpc = "for_each" /\ IsCancel) =>
               /\ bgpc' = "for_each"
               /\ UNCHANGED <<calls, outcomes, joinResult>> ]_vars
    /\ [][ (bgpc = "for_each" /\ bgpc' # "for_each") =>
               /\ Len(outcomes') = calls
               /\ Last(outcomes') = "Continue" => bgpc' = "load"
               /\ Last(outcomes') = "Break" =>
                      (bgpc' = "exited" /\ joinResult' = "Ok")
               /\ Last(outcomes') \in Errors =>
                      (bgpc' = "exited" /\ joinResult' = Last(outcomes'))
               /\ Last(outcomes') = "Panic" => bgpc' = "panicked" ]_vars

\* the step in flight at the cancel failed on its own, and wait() returned
\* that failure
C15_Witness ==
    /\ firstCancel.set /\ firstCancel.pc = "for_each"
    /\ firstCancel.calls = 2
    /\ Len(outcomes) = 2 /\ outcomes[2] = "Err2"
    /\ handle.state = "returned" /\ waitResult = "Err2"

\* ---- C16 ---------------------------------------------------------------
\* a step that creates a Canceller
IsNewCanceller == Len(cancellers') = Len(cancellers) + 1

C17_CancelTerminates ==
    /\ (Spawned /\ firstCancel.set) ~> (bgpc \in {"exited", "panicked"})
    /\ (firstCancel.set /\ handle.state = "waiting") ~>
           (handle.state \in {"returned", "panicked"})

\* wait() was blocked on a running thread when the cancel came, and returned
C17_Witness ==
    /\ firstCancel.set /\ firstCancel.pc = "for_each"
    /\ cancelledBy = {1}
    /\ falseRead.set
    /\ handle.state = "returned" /\ waitResult = "Ok"

\* ---- C18 ---------------------------------------------------------------
\* C18: the background thread loads the flag once before each for_each it
\* invokes, the first included, and a load of false is its last; a cell
\* changes only by a cancel(), so with no cancel() the flag is true, also
\* after the loop left by Break or by a failure.
C18_FlagAccess ==
    /\ [](Spawned =>
            /\ loads = calls + (IF bgpc = "call" \/ falseRead.set THEN 1 ELSE 0)
            /\ ~(bgpc = "call" /\ falseRead.set)
            /\ falseRead.set => falseRead.loads = loads
            /\ cancels = 0 => Flag)
    /\ [][ (Spawned /\ heap' # heap) => IsCancel ]_vars

\* the loop left by Break, nobody cancelled, the flag is still true
C18_Witness ==
    /\ Spawned /\ cancels = 0 /\ Flag
    /\ bgpc = "exited"
    /\ Len(outcomes) = 3 /\ outcomes[3] = "Break"
    /\ loads = 3

\* ---- C19 ---------------------------------------------------------------
\* C19: the result of a thread that has exited stays what it was at the exit:
\* a cancel() made afterwards changes neither the thread's result nor what
\* wait() has returned, and wait() returns that result.
C19_CancelAfterExit ==
    /\ [][ (bgpc \in {"exited", "panicked"} /\ IsCancel) =>
               UNCHANGED <<bgpc, joinResult, waitResult, handle>> ]_vars
    /\ [][ bgpc = "exited" =>
               (bgpc' = "exited" /\ joinResult' = joinResult) ]_vars
    /\ [](handle.state = "returned" => waitResult = joinResult)

\* the loop had failed before the first cancel; wait() returned the failure
C19_Witness ==
    /\ firstCancel.set /\ firstCancel.pc = "exited"
    /\ ~falseRead.set
    /\ handle.state = "returned" /\ waitResult = "Err1"

\* ---- C20 ---------------------------------------------------------------
\* C20: a step that is not a cancel(), a drop of the Handle or of a Canceller
\* included, leaves a true flag true; as long as nobody has cancelled, the
\* thread never loads false and it ends only by a step that returned Break,
\* failed or panicked.
C20_DropDoesNotCancel ==
    /\ [][ (Spawned /\ Flag /\ ~IsCancel) => heap'[thread_keep_running'] ]_vars
    /\ []((Spawned /\ cancels = 0) =>
            /\ ~falseRead.set
            /\ bgpc \in {"exited", "panicked"} =>
                   /\ outcomes # <<>>
                   /\ Last(outcomes) \in {"Break", "Panic"} \cup Errors
                   /\ Len(outcomes) = calls)

\* the Handle and both Cancellers are gone, nobody cancelled, and the loop
\* is in its fourth step
C20_Witness ==
    /\ handle.state = "dropped"
    /\ Len(cancellers) = 2
    /\ \A c \in 1..Len(cancellers) : ~cancellers[c].live
    /\ cancels = 0
    /\ bgpc = "for_each" /\ calls = 4

====
